---- MODULE Spec2Model ----
(***************************************************************************)
(* Model of polygon_downloader.py: main() validates the date, runs         *)
(* PolygonFuturesDownloader.download_trades (one loop iteration per page    *)
(* request) and hands the accumulated trades to save_to_file.               *)
(* The data provider and the file system are the environment: each request  *)
(* receives one response drawn from Responses, and the output path is       *)
(* either writable or not.                                                  *)
(***************************************************************************)
EXTENDS Integers, Sequences, FiniteSets, TLC

VARIABLES
  pc,          \* where main() is: "main", "loop", "save", "exited"
  args,        \* the parsed command line
  writable,    \* whether args.output can be opened for writing
  url,         \* download_trades: target of the next request
  page_count,  \* download_trades: iterations started
  all_trades,  \* download_trades: the accumulator
  requests,    \* every session.get issued, in order
  responses,   \* what each of them came back with
  stop,        \* why the loop ended
  saved,       \* save_to_file has been called
  file_opened, \* open(output_file, 'w') succeeded
  file,        \* rows written to the output file, header first
  exit_code    \* <<>> while running, <<n>> once the process exited with n

vars == <<pc, args, writable, url, page_count, all_trades, requests, responses,
          stop, saved, file_opened, file, exit_code>>

(* ---------------------------------------------------------------- bounds *)

\* cap on the number of loop iterations explored (the loop itself is unbounded)
MaxRequests == 4

\* largest --max-pages value tried
MaxCeiling == 3

(* ------------------------------------------------------- python values *)

\* Python's None for a string-valued slot (status, next_url)
None == "<None>"

\* args.max_pages: <<>> is None, <<k>> is the integer k
NoCeiling == <<>>

\* truthiness of a str-or-None value: None and "" are falsy
TruthyStr(s) == s # None /\ s # ""

\* truthiness of an Optional[int]: None and 0 are falsy
TruthyInt(m) == Len(m) > 0 /\ m[1] # 0

\* dict.get(key, default)
Get(d, k, default) == IF k \in DOMAIN d THEN d[k] ELSE default

BASE_URL == "https://api.polygon.io/futures/vX/trades"

(* --------------------------------------------------------- trade records *)

\* a trade record is a dict in insertion order: a sequence of <<key, value>>
RecAB == << <<"a", 1>>, <<"b", 2>> >>
RecAC == << <<"a", 3>>, <<"c", 4>> >>
RecA  == << <<"a", 5>> >>

Keys(rec) == [i \in 1..Len(rec) |-> rec[i][1]]

KeySet(rec) == {rec[i][1] : i \in 1..Len(rec)}

HasKey(rec, k) == k \in KeySet(rec)

Lookup(rec, k) == rec[CHOOSE i \in 1..Len(rec) : rec[i][1] = k][2]

\* the results arrays a page may carry
ResultArrays == { <<>>, <<RecAB>>, <<RecAC, RecA>> }

(* ----------------------------------------------------------- environment *)

Cursors == {"https://x/y?cursor=abc", "https://x/y?cursor=def"}

\* an optional JSON field: <<>> when the key is absent, <<v>> when present
Opt(S) == {<<>>} \cup {<<v>> : v \in S}

\* a parsed JSON object with the optional keys status, results, next_url
MkBody(ss, rs, ns) ==
  [k \in {x \in {"status", "results", "next_url"} :
            \/ x = "status" /\ Len(ss) = 1
            \/ x = "results" /\ Len(rs) = 1
            \/ x = "next_url" /\ Len(ns) = 1}
     |-> IF k = "status" THEN ss[1] ELSE IF k = "results" THEN rs[1] ELSE ns[1]]

\* bodies the provider may send: OK pages with any results / next_url, and
\* pages whose status is not exactly "OK" (with or without results and link)
Bodies ==
  { MkBody(<<"OK">>, rs, ns) : rs \in Opt(ResultArrays), ns \in Opt(Cursors \cup {""}) }
  \cup
  { MkBody(ss, rn[1], rn[2]) :
      ss \in Opt({"ERROR", "ok"}),
      rn \in { <<<<>>, <<>>>>, << <<<<RecAB>>>>, <<"https://x/y?cursor=abc">> >> } }

\* what one session.get can come back with
Responses ==
  { [kind |-> "json", data |-> b] : b \in Bodies }
  \cup { [kind |-> k, data |-> <<>>] : k \in {"http_error", "network_error", "bad_json"} }

(* ------------------------------------------------------ date validation *)

IsLeap(y) == (y % 4 = 0 /\ y % 100 # 0) \/ y % 400 = 0

DaysInMonth(y, m) ==
  IF m = 2 THEN (IF IsLeap(y) THEN 29 ELSE 28)
  ELSE IF m \in {4, 6, 9, 11} THEN 30 ELSE 31

\* variant: only the shape is checked (four-digit year, two numbers)
ValidDate_shapeOnly(ts) == ts[1] \in 1..9999 /\ ts[2] \in 0..99 /\ ts[3] \in 0..99

\* datetime.strptime(ts, '%Y-%m-%d') succeeds; ts is <<year, month, day>>
ValidDate(ts) ==
  /\ ts[1] \in 1..9999
  /\ ts[2] \in 1..12
  /\ ts[3] \in 1..DaysInMonth(ts[1], ts[2])

\* the timestamp arguments tried, "2025-13-45" among them
Timestamps == { <<2025, 8, 22>>, <<2025, 13, 45>>, <<2025, 2, 29>>, <<2024, 2, 29>> }

\* args.max_pages: absent, or an integer 0..MaxCeiling
Ceilings == {NoCeiling} \cup {<<k>> : k \in 0..MaxCeiling}

\* the parsed command line
ArgSets ==
  [ticker : {"ESZ5"}, timestamp : Timestamps, api_key : {"KEY"},
   limit : {5}, sort : {"timestamp.desc"}, max_pages : Ceilings]

(* ---------------------------------------------------- download_trades *)

\* the url of the first request
InitialUrl(a) == <<BASE_URL, a.ticker>>

\* query parameters of the first request
InitialParams(a) ==
  [apiKey |-> a.api_key, timestamp |-> a.timestamp, limit |-> a.limit, sort |-> a.sort]

\* variant: the follow-up request re-sends timestamp, limit and sort
FollowUpParams_resend(a) == InitialParams(a)

\* query parameters of every follow-up request
FollowUpParams(a) == [apiKey |-> a.api_key]

\* the session.get issued by iteration number pcount against target u
MakeRequest(a, pcount, u) ==
  [url |-> u, params |-> IF pcount = 1 THEN InitialParams(a) ELSE FollowUpParams(a)]

\* variant: an unparseable body is not noticed
RequestRaises_statusOnly(resp) == resp.kind \in {"http_error", "network_error"}

\* response.raise_for_status() or response.json() raises
RequestRaises(resp) == resp.kind \in {"http_error", "network_error", "bad_json"}

\* variant: only the status "ERROR" ends the loop
StatusIsOK_loose(data) == Get(data, "status", None) # "ERROR"

\* data.get("status") != "OK" is false
StatusIsOK(data) == Get(data, "status", None) = "OK"

\* variant: the page is put in front of the accumulator
Extend_prepend(trades, results) == results \o trades

\* all_trades.extend(results)
Extend(trades, results) == trades \o results

\* variant: the ceiling is compared with > instead of >=
ReachedMaxPages_late(m, pcount) == TruthyInt(m) /\ pcount > m[1]

\* if max_pages and page_count >= max_pages
ReachedMaxPages(m, pcount) == TruthyInt(m) /\ pcount >= m[1]

\* a url value as the loop condition sees it
UrlTruthy(u) == IF Len(u) = 2 THEN TRUE ELSE TruthyStr(u[1])

(* -------------------------------------------------------- save_to_file *)

Digit == <<"0", "1", "2", "3", "4", "5", "6", "7", "8", "9">>

RECURSIVE Str(_)
\* str(n) of a non-negative integer, as the csv writer renders a cell
Str(n) == IF n < 10 THEN Digit[n + 1] ELSE Str(n \div 10) \o Digit[(n % 10) + 1]

\* variant: the emptiness check is missing
NoData_never(data) == FALSE

\* if not data
NoData(data) == Len(data) = 0

\* data[0] raises IndexError
FirstRecordRaises(data) == Len(data) = 0

\* fieldnames = list(data[0].keys())
FieldNames(data) == Keys(data[1])

\* DictWriter with extrasaction='raise' (the default) rejects the row
RowRaises(rec, fieldnames) ==
  \E k \in KeySet(rec) : k \notin {fieldnames[i] : i \in 1..Len(fieldnames)}

\* the cells of one row, restval='' (the default) for a missing column
RowCells(rec, fieldnames) ==
  [i \in 1..Len(fieldnames) |->
     IF HasKey(rec, fieldnames[i]) THEN Str(Lookup(rec, fieldnames[i])) ELSE ""]

RECURSIVE WriteRows(_, _)
\* writer.writerows(data): the rows written before the first rejected row
WriteRows(data, fieldnames) ==
  IF Len(data) = 0 \/ RowRaises(data[1], fieldnames) THEN <<>>
  ELSE <<RowCells(data[1], fieldnames)>> \o WriteRows(Tail(data), fieldnames)

\* writer.writerows(data) raises ValueError
WriteRaises(data, fieldnames) ==
  \E i \in 1..Len(data) : RowRaises(data[i], fieldnames)

(* ---------------------------------------------------------------- state *)

Init ==
  /\ pc = "main"
  /\ args \in ArgSets
  /\ writable \in BOOLEAN
  /\ url = <<None>>
  /\ page_count = 0
  /\ all_trades = <<>>
  /\ requests = <<>>
  /\ responses = <<>>
  /\ stop = "running"
  /\ saved = FALSE
  /\ file_opened = FALSE
  /\ file = <<>>
  /\ exit_code = <<>>

\* main(), lines 167-174: the date is rejected, sys.exit(1)
RejectDate ==
  /\ pc = "main"
  /\ ~ValidDate(args.timestamp)
  /\ pc' = "exited"
  /\ stop' = "invalid_date"
  /\ exit_code' = <<1>>
  /\ UNCHANGED <<args, writable, url, page_count, all_trades, requests, responses,
                 saved, file_opened, file>>

\* main() up to the call of download_trades and its lines 45-55
StartDownload ==
  /\ pc = "main"
  /\ ValidDate(args.timestamp)
  /\ pc' = "loop"
  /\ all_trades' = <<>>
  /\ page_count' = 0
  /\ url' = InitialUrl(args)
  /\ UNCHANGED <<args, writable, requests, responses, stop, saved, file_opened, file, exit_code>>

\* one iteration of `while url`, lines 57-91, on the response resp
LoopIteration(resp) ==
  /\ pc = "loop"
  /\ UrlTruthy(url)
  /\ page_count < MaxRequests
  /\ page_count' = page_count + 1
  /\ requests' = Append(requests, MakeRequest(args, page_count + 1, url))
  /\ responses' = Append(responses, resp)
  /\ IF RequestRaises(resp)
       THEN \* the exception reaches main's handlers: sys.exit(1)
            /\ pc' = "exited"
            /\ stop' = "error"
            /\ exit_code' = <<1>>
            /\ UNCHANGED <<url, all_trades>>
       ELSE IF ~StatusIsOK(resp.data)
       THEN \* break before results are read
            /\ pc' = "save"
            /\ stop' = "non_ok"
            /\ UNCHANGED <<url, all_trades, exit_code>>
       ELSE LET results == Get(resp.data, "results", <<>>)
                next    == <<Get(resp.data, "next_url", None)>>
            IN  /\ all_trades' = Extend(all_trades, results)
                /\ url' = next
                /\ IF ReachedMaxPages(args.max_pages, page_count + 1)
                     THEN pc' = "save" /\ stop' = "capped"
                     ELSE IF ~UrlTruthy(next)
                     THEN pc' = "save" /\ stop' = "exhausted"
                     ELSE pc' = "loop" /\ stop' = stop
                /\ UNCHANGED exit_code
  /\ UNCHANGED <<args, writable, saved, file_opened, file>>

\* download_trades returns; save_to_file(trades, args.output), lines 95-109,
\* and the end of main, lines 192-199
SaveToFile ==
  /\ pc = "save"
  /\ saved' = TRUE
  /\ pc' = "exited"
  /\ IF NoData(all_trades)
       THEN /\ exit_code' = <<0>>
            /\ UNCHANGED <<file_opened, file>>
       ELSE IF FirstRecordRaises(all_trades) \/ ~writable
       THEN \* data[0] or open() raises, caught by `except Exception`
            /\ exit_code' = <<1>>
            /\ UNCHANGED <<file_opened, file>>
       ELSE LET fieldnames == FieldNames(all_trades)
            IN  /\ file_opened' = TRUE
                /\ file' = <<fieldnames>> \o WriteRows(all_trades, fieldnames)
                /\ exit_code' = IF WriteRaises(all_trades, fieldnames) THEN <<1>> ELSE <<0>>
  /\ UNCHANGED <<args, writable, url, page_count, all_trades, requests, responses, stop>>

Fetch == \E resp \in Responses : LoopIteration(resp)

Next ==
  \/ RejectDate
  \/ StartDownload
  \/ Fetch
  \/ SaveToFile

Spec == Init /\ [][Next]_vars

(* ------------------------------------------------------------ properties *)

\* page r parsed and its status is exactly "OK"
PageStatusOK(r) ==
  r.kind = "json" /\ "status" \in DOMAIN r.data /\ r.data.status = "OK"

\* the results array of page r, empty when the key is absent
PageResults(r) == IF "results" \in DOMAIN r.data THEN r.data.results ELSE <<>>

\* page r carries a non-empty next_url
PageLinks(r) ==
  "next_url" \in DOMAIN r.data /\ r.data.next_url # "" /\ r.data.next_url # None

RECURSIVE ConcatPages(_)
\* the results of the first n pages received, in page order
ConcatPages(n) ==
  IF n = 0 THEN <<>> ELSE ConcatPages(n - 1) \o PageResults(responses[n])

\* the first n pages received are OK pages that each link to a next page
OKChain(n) ==
  \A i \in 1..n : PageStatusOK(responses[i]) /\ PageLinks(responses[i])

Returned == pc \in {"save", "exited"}

\* C1: with no max_pages, a chain of N OK pages of which only the last has no
\* next_url is fetched in exactly N requests and the accumulator is the
\* concatenation of the pages' results in page order, then intra-page order;
\* while every page so far links on, the loop keeps going.
C1_AllPagesAccumulated ==
  LET n == Len(responses) IN
  (args.max_pages = NoCeiling /\ n >= 1) =>
    /\ (OKChain(n - 1) /\ PageStatusOK(responses[n]) /\ ~PageLinks(responses[n])) =>
         /\ Returned
         /\ stop = "exhausted"
         /\ Len(requests) = n
         /\ all_trades = ConcatPages(n)
    /\ OKChain(n) =>
         /\ pc = "loop"
         /\ Len(requests) = n
         /\ all_trades = ConcatPages(n)

C1_Witness ==
  /\ pc = "exited"
  /\ args.max_pages = NoCeiling
  /\ stop = "exhausted"
  /\ Len(requests) = 3
  /\ OKChain(2)
  /\ all_trades = <<RecAB, RecAC, RecA, RecAB>>

\* C2: with max_pages = k >= 1 and k OK pages that each link to a next page,
\* exactly k requests are issued, the loop stops although the k-th page has a
\* next_url, and the accumulator holds the results of pages 1..k only.
C2_StopsAtCeiling ==
  LET m == args.max_pages
      n == Len(responses)
  IN  (Len(m) = 1 /\ m[1] >= 1) =>
        /\ Len(requests) <= m[1]
        /\ (n = m[1] /\ OKChain(n)) =>
             /\ Returned
             /\ stop = "capped"
             /\ Len(requests) = m[1]
             /\ all_trades = ConcatPages(m[1])
        /\ (n >= 1 /\ n < m[1] /\ OKChain(n)) => pc = "loop"

C2_Witness ==
  /\ pc = "exited"
  /\ args.max_pages = <<2>>
  /\ stop = "capped"
  /\ Len(requests) = 2
  /\ OKChain(2)
  /\ Len(all_trades) = 3

\* C3: max_pages = 0 means "fetch nothing": at most one request is issued.
C3_ZeroFetchesNothing ==
  args.max_pages = <<0>> => Len(requests) <= 1

\* the row the writer is to produce for rec under header: the value of each
\* header column, empty where rec lacks it, fields outside the header dropped
ExpectedRow(rec, header) ==
  [i \in 1..Len(header) |->
     IF \E j \in 1..Len(rec) : rec[j][1] = header[i]
       THEN Str(rec[CHOOSE j \in 1..Len(rec) : rec[j][1] = header[i]][2])
       ELSE ""]

\* C4: for a non-empty record list written to a writable path, the file is
\* the header taken from the first record followed by one row per record in
\* that column order, and a record with a key outside the header does not
\* make the write fail.
C4_OneRowPerRecord ==
  (saved /\ writable /\ Len(all_trades) > 0) =>
    /\ exit_code = <<0>>
    /\ file_opened
    /\ Len(file) = 1 + Len(all_trades)
    /\ file[1] = Keys(all_trades[1])
    /\ \A i \in 1..Len(all_trades) :
         file[i + 1] = ExpectedRow(all_trades[i], Keys(all_trades[1]))

\* C5: if page i is the first page whose status is not exactly "OK", exactly
\* i requests are issued and the accumulator is the results of pages 1..i-1.
C5_NonOKPageNotAppended ==
  \A i \in 1..Len(responses) :
    (responses[i].kind = "json" /\ ~PageStatusOK(responses[i])) =>
      /\ i = Len(responses)
      /\ Len(requests) = i
      /\ Returned
      /\ stop = "non_ok"
      /\ all_trades = ConcatPages(i - 1)

C5_Witness ==
  /\ pc = "exited"
  /\ stop = "non_ok"
  /\ Len(requests) = 3
  /\ Len(all_trades) = 3
  /\ "status" \in DOMAIN responses[3].data
  /\ responses[3].data.status = "ok"
  /\ PageResults(responses[3]) = <<RecAB>>
  /\ PageLinks(responses[3])

\* C6: a transport failure or an unparseable body on page j ends the run: it
\* is the last request, save_to_file is not called, no file is written and
\* the process exits with code 1.
C6_TransportFailureIsFatal ==
  \A j \in 1..Len(responses) :
    responses[j].kind # "json" =>
      /\ j = Len(responses)
      /\ Len(requests) = j
      /\ pc = "exited"
      /\ exit_code = <<1>>
      /\ ~saved
      /\ ~file_opened
      /\ file = <<>>

C6_Witness ==
  /\ pc = "exited"
  /\ Len(responses) = 3
  /\ responses[3].kind = "bad_json"
  /\ Len(all_trades) = 3
  /\ writable
  /\ exit_code = <<1>>

\* C7: when the loop stops on a non-OK status, the records of the earlier
\* pages are handed to save_to_file, are written when there is at least one,
\* and the process does not exit with code 1 (output path writable).
C7_NonOKIsNormalEnd ==
  (stop = "non_ok" /\ pc = "exited" /\ writable) =>
    /\ saved
    /\ exit_code # <<1>>
    /\ Len(all_trades) > 0 => (file_opened /\ Len(file) = 1 + Len(all_trades))

\* the timestamps of Timestamps that are no calendar date
InvalidTimestamps == { <<2025, 13, 45>>, <<2025, 2, 29>> }

\* C8: with an invalid date no request is ever issued, no downloader runs, no
\* file is opened, and the process exits with code 1.
C8_InvalidDateNoRequest ==
  args.timestamp \in InvalidTimestamps =>
    /\ Len(requests) = 0
    /\ pc \in {"main", "exited"}
    /\ ~saved
    /\ ~file_opened
    /\ pc = "exited" => exit_code = <<1>>

C8_Witness ==
  /\ args.timestamp = <<2025, 13, 45>>
  /\ pc = "exited"
  /\ exit_code = <<1>>
  /\ Len(requests) = 0

\* C9: the first request goes to BASE_URL/ticker with apiKey, timestamp,
\* limit and sort; every later request goes to exactly the next_url of the
\* response before it, with apiKey as its only query parameter.
C9_FollowUpTargetsNextUrl ==
  \A i \in 1..Len(requests) :
    IF i = 1
      THEN /\ requests[1].url = <<BASE_URL, args.ticker>>
           /\ DOMAIN requests[1].params = {"apiKey", "timestamp", "limit", "sort"}
           /\ requests[1].params.apiKey = args.api_key
           /\ requests[1].params.timestamp = args.timestamp
           /\ requests[1].params.limit = args.limit
           /\ requests[1].params.sort = args.sort
      ELSE /\ PageLinks(responses[i - 1])
           /\ requests[i].url = <<responses[i - 1].data.next_url>>
           /\ DOMAIN requests[i].params = {"apiKey"}
           /\ requests[i].params.apiKey = args.api_key

C9_Witness ==
  /\ Len(requests) = 3
  /\ requests[2].url = <<"https://x/y?cursor=abc">>
  /\ requests[3].url = <<"https://x/y?cursor=def">>

\* C10: with zero accumulated records save_to_file opens no file and the run
\* exits with code 0; a file is opened only for a non-empty record list.
C10_EmptySaveIsNoOp ==
  /\ (saved /\ Len(all_trades) = 0) =>
       (~file_opened /\ file = <<>> /\ pc = "exited" /\ exit_code = <<0>>)
  /\ file_opened => Len(all_trades) > 0

C10_Witness ==
  /\ saved
  /\ Len(all_trades) = 0
  /\ Len(requests) = 2
  /\ exit_code = <<0>>
  /\ ~writable

====
